---- MODULE Spec2Model ----
(***************************************************************************)
(* Model of the product-tracking control loop of bluehaoran/watcher.       *)
(* It covers src/src/scheduler.rs (the ProductScheduler, its jobs map, its  *)
(* running_jobs map, the cron closures installed in the JobScheduler and   *)
(* the check tasks those closures spawn), the notification gate            *)
(* Product::should_notify of src/src/models/product.rs, and the product    *)
(* checker of src/src/product_manager.rs with the Source of                *)
(* src/src/models/source.rs.                                               *)
(***************************************************************************)
EXTENDS Integers, Sequences, FiniteSets, TLC

\* ---------------------------------------------------------------- bounds
NumProducts == 2        \* product ids 1..NumProducts
MaxTriggers == 2        \* cron jobs ever added to the JobScheduler
MaxChecks   == 1        \* checks ever started (cron-spawned or run_now)

\* ------------------------------------------------------- configuration
\* SchedulerConfig.max_running_jobs (the value of the overflow scenario)
max_running_jobs == 2

Products == 1..NumProducts

\* Product.check_interval values; Job::new_async rejects the last one
ValidCrons == {"*/5 * * * *", "0 * * * *"}

\* the fields of Product that the scheduler reads
ProductInputs ==
    [id : Products, is_active : BOOLEAN, is_paused : BOOLEAN,
     check_interval : ValidCrons \cup {"invalid cron"}]

\* ProductCheckResult as ProductManager::check_product returns it: always
\* Ok, error None, success = (sources_succeeded > 0)
CheckResults == {[success |-> TRUE, error |-> "None"],
                 [success |-> FALSE, error |-> "None"]}

VARIABLES
    sched,          \* JobScheduler: "new", "started" or "shutdown"
    triggers,       \* product_id -> number of cron jobs in the JobScheduler
    jobs,           \* product_id -> JobInfo
    running_jobs,   \* product_id -> handle (id of the spawned task)
    nchecks,        \* number of checks ever started (names the next task)
    tasks,          \* the checks in flight: task id -> product, kind, job
    cleanups,       \* pending 100 ms cleanups: task id of the fire -> product
    last,           \* the last call and what it returned
    gate,           \* a call of Product::should_notify and its result
    source,         \* the Source the product checker works on
    checker,        \* the runs of the product checker and the last result
    history,        \* the PriceHistory entries written for the source
    call,           \* a call of a pure function: its arguments and result
    browser_pool,   \* the BrowserPool: its browsers and current_index
    fetches         \* the calls of WebScraper::scrape in progress

\* the state of the product checker, of the notification gate and of the
\* calls of the pure functions
checkerVars == <<gate, source, checker, history, call, browser_pool, fetches>>

vars == <<sched, triggers, jobs, running_jobs, nchecks, tasks, cleanups, last,
          gate, source, checker, history, call, browser_pool, fetches>>

\* ------------------------------------------------------------- helpers
RemoveKey(f, k) == [x \in DOMAIN f \ {k} |-> f[x]]

PutKey(f, k, v) == [x \in DOMAIN f \cup {k} |-> IF x = k THEN v ELSE f[x]]

EmptyMap == [x \in {} |-> 0]

\* a call (or the step of a task) on product pid and what it returned
Call(op, pid, res) ==
    [op |-> op, pid |-> pid, is_active |-> FALSE, is_paused |-> FALSE,
     check_interval |-> "", res |-> res]

\* a call that takes a Product
CallP(op, product, res) ==
    [op |-> op, pid |-> product.id, is_active |-> product.is_active,
     is_paused |-> product.is_paused,
     check_interval |-> product.check_interval, res |-> res]

\* a JobInfo that counts its creation as a run
NewJobInfo_counted(id, product) ==
    [id |-> id, product_id |-> product.id,
     cron_expression |-> product.check_interval, status |-> "Active",
     last_run |-> "None", next_run |-> "None",
     run_count |-> 1, success_count |-> 0, error_count |-> 0,
     last_error |-> "None"]

\* JobInfo as schedule_product builds it
NewJobInfo(id, product) ==
    [id |-> id, product_id |-> product.id,
     cron_expression |-> product.check_interval, status |-> "Active",
     last_run |-> "None", next_run |-> "None",
     run_count |-> 0, success_count |-> 0, error_count |-> 0,
     last_error |-> "None"]

\* Job::new_async parses the cron expression
JobNewAsyncOk(cron) == cron \in ValidCrons

RECURSIVE SumOver(_, _)
SumOver(f, S) ==
    IF S = {} THEN 0
    ELSE LET x == CHOOSE y \in S : TRUE IN f[x] + SumOver(f, S \ {x})

\* cron jobs ever added to the JobScheduler (none is ever removed)
NumTriggers == SumOver(triggers, DOMAIN triggers)

\* cron jobs in the JobScheduler whose closure checks product pid
TriggersOf(pid) == IF pid \in DOMAIN triggers THEN triggers[pid] ELSE 0

\* checks in flight for one product
InFlight(p) == {t \in DOMAIN tasks : tasks[t].pid = p}

\* cron-spawned check tasks in flight
ScheduledTasks == {t \in DOMAIN tasks : tasks[t].kind = "cron"}

\* the id of the JobInfo a product has (0 without one); a task records it
\* when it starts
JobIdOf(pid) == IF pid \in DOMAIN jobs THEN jobs[pid].id ELSE 0

\* handle.abort(): the task stops; a finished task is not affected
Abort(ts, handle) == RemoveKey(ts, handle)

get_job_info(product_id) ==
    IF product_id \in DOMAIN jobs THEN jobs[product_id] ELSE "None"

is_job_running(product_id) == product_id \in DOMAIN running_jobs

\* get_stats: the SchedulerStats computed from the jobs and running_jobs
get_stats ==
    [total_jobs |-> Cardinality(DOMAIN jobs),
     active_jobs |->
        Cardinality({p \in DOMAIN jobs : jobs[p].status = "Active"}),
     paused_jobs |->
        Cardinality({p \in DOMAIN jobs : jobs[p].status = "Paused"}),
     running_jobs |-> Cardinality(DOMAIN running_jobs),
     completed_runs |->
        SumOver([p \in DOMAIN jobs |-> jobs[p].success_count], DOMAIN jobs),
     failed_runs |->
        SumOver([p \in DOMAIN jobs |-> jobs[p].error_count], DOMAIN jobs)]

\* what a completed check reports: result.success
Outcome(result) == IF result.success THEN "Success" ELSE "Failed"

\* ------------------------------------------------- update_job_stats
\* an update after which a job in status Error stays there
update_job_stats_sticky_error(js, product_id, result) ==
    IF product_id \in DOMAIN js
    THEN LET j  == js[product_id]
             j1 == [j EXCEPT !.last_run = "Some", !.run_count = @ + 1]
             j2 == IF result.success
                   THEN [j1 EXCEPT !.success_count = @ + 1,
                                   !.last_error = "None"]
                   ELSE [j1 EXCEPT !.error_count = @ + 1,
                                   !.last_error = result.error,
                                   !.status = "Error"]
         IN  [js EXCEPT ![product_id] = j2]
    ELSE js

update_job_stats_internal(js, product_id, result) ==
    IF product_id \in DOMAIN js
    THEN LET j  == js[product_id]
             j1 == [j EXCEPT !.last_run = "Some", !.run_count = @ + 1]
             j2 == IF result.success
                   THEN [j1 EXCEPT !.success_count = @ + 1,
                                   !.last_error = "None",
                                   !.status = IF @ = "Error" THEN "Active"
                                              ELSE @]
                   ELSE [j1 EXCEPT !.error_count = @ + 1,
                                   !.last_error = result.error,
                                   !.status = "Error"]
         IN  [js EXCEPT ![product_id] = j2]
    ELSE js

\* ------------------------------------------------------------ Option
\* Option<T>: None is the empty sequence, Some(x) the sequence of x
None == <<>>

Some(x) == <<x>>

\* ------------------------------------------------- serde_json::Value
\* The values the tracker plugins emit. Numbers are in hundredths.
PriceValue(amount, currency) == [amount |-> amount, currency |-> currency]

NumberValue(number) == [number |-> number]

VersionValue(version) == [version |-> version]

\* Decimal::to_string of the amounts a price can have: 20 and 20.00 are
\* two strings of one number
AmountStrings == {"19.50", "20", "20.00", "22.00"}

MaxAmount == 2200       \* the largest amount, in hundredths

\* format!("{:.2}", x) of x = h / 100: the integer part, a point and two
\* decimals
Format2(h) ==
    ToString(h \div 100) \o "." \o
        (IF h % 100 < 10 THEN "0" \o ToString(h % 100)
         ELSE ToString(h % 100))

\* str::parse::<f64>(), in hundredths: the strings above, then every other
\* string of a number with two decimals; None stands for Err
ParseF64(s) ==
    CASE s = "19.50" -> Some(1950)
      [] s = "20"    -> Some(2000)
      [] s = "20.00" -> Some(2000)
      [] s = "22.00" -> Some(2200)
      [] OTHER       ->
            IF \E h \in 0..MaxAmount : Format2(h) = s
            THEN Some(CHOOSE h \in 0..MaxAmount : Format2(h) = s)
            ELSE None

\* the values a source of a product of this tracker_type can hold
ValuesOf(tracker_type) ==
    CASE tracker_type = "Price" ->
            {PriceValue(a, "USD") : a \in AmountStrings}
      [] tracker_type = "Number" ->
            {NumberValue(n) : n \in {0, 1950, 2000, 2200}}
      [] tracker_type = "Version" ->
            {VersionValue(v) : v \in {"1.0.0", "1.1.0"}}

\* ------------------------------------------ Product::should_notify
\* Product::extract_number on an object value: the amount string parsed,
\* else the number field
extract_number(value) ==
    IF "amount" \in DOMAIN value THEN ParseF64(value.amount)
    ELSE IF "number" \in DOMAIN value THEN Some(value.number)
    ELSE None

\* Option::unwrap_or
unwrap_or(opt, default) == IF opt = None THEN default ELSE opt[1]

\* a decrease test that also accepts equal numbers
is_decrease_or_equal(product, old_value, new_value) ==
    IF product.tracker_type \in {"Price", "Number"}
    THEN unwrap_or(extract_number(new_value), 0)
            <= unwrap_or(extract_number(old_value), 0)
    ELSE FALSE

is_decrease(product, old_value, new_value) ==
    IF product.tracker_type \in {"Price", "Number"}
    THEN unwrap_or(extract_number(new_value), 0)
            < unwrap_or(extract_number(old_value), 0)
    ELSE FALSE

is_increase(product, old_value, new_value) ==
    IF product.tracker_type \in {"Price", "Number"}
    THEN unwrap_or(extract_number(new_value), 0)
            > unwrap_or(extract_number(old_value), 0)
    ELSE old_value # new_value

\* a gate without the test for a first check
should_notify_on_first_check(product, old_value, new_value) ==
    IF old_value # None /\ old_value[1] = new_value THEN FALSE
    ELSE CASE product.notify_on = "AnyChange" -> TRUE
           [] product.notify_on = "Decrease" ->
                is_decrease(product, unwrap_or(old_value, new_value),
                            new_value)
           [] product.notify_on = "Increase" ->
                is_increase(product, unwrap_or(old_value, new_value),
                            new_value)

\* old_value is an Option; threshold_type and threshold_value are not read
should_notify(product, old_value, new_value) ==
    IF old_value = None THEN FALSE
    ELSE IF old_value[1] = new_value THEN FALSE
    ELSE CASE product.notify_on = "AnyChange" -> TRUE
           [] product.notify_on = "Decrease" ->
                is_decrease(product, old_value[1], new_value)
           [] product.notify_on = "Increase" ->
                is_increase(product, old_value[1], new_value)

\* the fields of Product that the gate and the product checker read; the
\* threshold settings are none, 2.00 absolute and 10 percent
GateProducts ==
    {[tracker_type |-> t, notify_on |-> n, is_active |-> a,
      threshold_type |-> th.threshold_type,
      threshold_value |-> th.threshold_value] :
        t \in {"Price", "Version", "Number"},
        n \in {"AnyChange", "Decrease", "Increase"},
        a \in BOOLEAN,
        th \in {[threshold_type |-> None, threshold_value |-> None],
                [threshold_type |-> Some("Absolute"),
                 threshold_value |-> Some(200)],
                [threshold_type |-> Some("Relative"),
                 threshold_value |-> Some(10)]}}

\* the calls of should_notify: a product, the previous value of a source
\* (None before its first successful check) and the new value
GateCalls ==
    UNION {{[product |-> p, old_value |-> o, new_value |-> n, res |-> None] :
                o \in {None} \cup {Some(v) : v \in ValuesOf(p.tracker_type)},
                n \in ValuesOf(p.tracker_type)} :
           p \in {q \in GateProducts : q.is_active}}

\* ---------------------------------------------------------- Source
\* Source::new and the methods of Source. update_value, record_error and
\* clear_error are the only writers of the value and error fields; the
\* product checker calls none of them.
Source_new ==
    [store_name |-> None, title |-> "Test Source", selector |-> ".price",
     selector_type |-> "Css",
     original_value_json |-> None, current_value_json |-> None,
     original_text |-> None, current_text |-> None,
     is_active |-> TRUE, last_checked |-> None,
     error_count |-> 0, last_error |-> None]

\* Value::to_string and serde_json::from_str
to_string(value) == [json |-> value]

from_str(json_str) ==
    IF "json" \in DOMAIN json_str THEN Some(json_str.json) ELSE None

clear_error(s) == [s EXCEPT !.error_count = 0, !.last_error = None]

update_value(s, text, value_json, now) ==
    LET s1 == [s EXCEPT !.current_text = Some(text),
                        !.current_value_json = Some(value_json)]
        s2 == IF s1.original_text = None
              THEN [s1 EXCEPT !.original_text = Some(text),
                              !.original_value_json = Some(value_json)]
              ELSE s1
    IN  clear_error([s2 EXCEPT !.last_checked = Some(now)])

record_error(s, error, now) ==
    [s EXCEPT !.error_count = @ + 1, !.last_error = Some(error),
              !.last_checked = Some(now)]

should_retry(s) == s.is_active /\ s.error_count < 5

\* an update that also clears the error state of the source
Source_update_clearing(s, update) ==
    LET s1 == IF update.store_name # None
              THEN [s EXCEPT !.store_name = Some(update.store_name[1])]
              ELSE s
        s2 == IF update.title # None
              THEN [s1 EXCEPT !.title = update.title[1]] ELSE s1
        s3 == IF update.selector # None
              THEN [s2 EXCEPT !.selector = update.selector[1]] ELSE s2
        s4 == IF update.selector_type # None
              THEN [s3 EXCEPT !.selector_type = update.selector_type[1]]
              ELSE s3
    IN  clear_error(IF update.is_active # None
                    THEN [s4 EXCEPT !.is_active = update.is_active[1]]
                    ELSE s4)

\* Source::update(UpdateSource): each field of the update that is Some
\* replaces the field of the source (updated_at is not modelled)
Source_update(s, update) ==
    LET s1 == IF update.store_name # None
              THEN [s EXCEPT !.store_name = Some(update.store_name[1])]
              ELSE s
        s2 == IF update.title # None
              THEN [s1 EXCEPT !.title = update.title[1]] ELSE s1
        s3 == IF update.selector # None
              THEN [s2 EXCEPT !.selector = update.selector[1]] ELSE s2
        s4 == IF update.selector_type # None
              THEN [s3 EXCEPT !.selector_type = update.selector_type[1]]
              ELSE s3
    IN  IF update.is_active # None
        THEN [s4 EXCEPT !.is_active = update.is_active[1]]
        ELSE s4

get_current_value(s) ==
    IF s.current_value_json = None THEN None
    ELSE from_str(s.current_value_json[1])

\* ------------------------------------------- validate_cron_expression
\* A cron expression is a sequence of characters.
\* char::is_ascii_digit
is_ascii_digit(c) ==
    c \in {"0", "1", "2", "3", "4", "5", "6", "7", "8", "9"}

\* char::is_whitespace, on ASCII characters
is_whitespace(c) == c \in {" ", "\t", "\n", "\r"}

RECURSIVE SplitFrom(_, _, _, _)
\* str::split_whitespace from the i-th character on: cur is the field being
\* read, parts the fields read so far; runs of whitespace separate fields
\* and yield no empty field
SplitFrom(s, i, cur, parts) ==
    LET closed == IF cur = <<>> THEN parts ELSE Append(parts, cur)
    IN  IF i > Len(s) THEN closed
        ELSE IF is_whitespace(s[i]) THEN SplitFrom(s, i + 1, <<>>, closed)
        ELSE SplitFrom(s, i + 1, Append(cur, s[i]), parts)

split_whitespace(s) == SplitFrom(s, 1, <<>>, <<>>)

\* a validation that accepts five or fewer fields
validate_cron_expression_at_most_five(expression) ==
    LET parts == split_whitespace(expression)
    IN  IF Len(parts) > 5 THEN FALSE
        ELSE \A p \in DOMAIN parts :
                /\ parts[p] # <<>>
                /\ \A k \in DOMAIN parts[p] :
                        \/ is_ascii_digit(parts[p][k])
                        \/ parts[p][k] \in {"*", "-", ",", "/"}

\* ProductScheduler::validate_cron_expression (ProductManager::is_valid_cron
\* makes the same two tests): false unless there are exactly 5 fields, false
\* for a field that is empty or holds a character other than a digit, "*",
\* "-", "," and "/", else true
validate_cron_expression(expression) ==
    LET parts == split_whitespace(expression)
    IN  IF Len(parts) # 5 THEN FALSE
        ELSE \A p \in DOMAIN parts :
                /\ parts[p] # <<>>
                /\ \A k \in DOMAIN parts[p] :
                        \/ is_ascii_digit(parts[p][k])
                        \/ parts[p][k] \in {"*", "-", ",", "/"}

\* ------------------------------------------------- the version tracker
\* A version string is the sequence of the ASCII codes of its characters:
\* 48 to 57 are the digits, 46 is ".", 45 is "-".
IsDigit(c) == c \in 48..57

RECURSIVE Digits(_)
\* the decimal digits of n, as Display prints a u32
Digits(n) ==
    IF n < 10 THEN <<48 + n>> ELSE Append(Digits(n \div 10), 48 + (n % 10))

RECURSIVE ParseU32(_)
\* str::parse::<u32>() on a string of digits
ParseU32(s) ==
    IF s = <<>> THEN 0
    ELSE 10 * ParseU32(SubSeq(s, 1, Len(s) - 1)) + (s[Len(s)] - 48)

RECURSIVE DigitsEnd(_, _)
\* the position of the last digit of the run of digits that begins at i
\* (i - 1 if s has no digit at i): what the group (\d+) matches
DigitsEnd(s, i) ==
    IF i <= Len(s) /\ IsDigit(s[i]) THEN DigitsEnd(s, i + 1) ELSE i - 1

\* <Version as Display>::fmt
Version_fmt(v) ==
    Digits(v.major) \o <<46>> \o Digits(v.minor) \o <<46>> \o Digits(v.patch)
        \o (IF v.pre_release = None THEN <<>>
            ELSE <<45>> \o v.pre_release[1])

\* Version::parse: the string must match ^(\d+)\.(\d+)\.(\d+)(?:-(.+))?$
Version_parse(s) ==
    LET a == DigitsEnd(s, 1)
        b == DigitsEnd(s, a + 2)
        c == DigitsEnd(s, b + 2)
    IN  IF /\ a >= 1 /\ a + 1 <= Len(s) /\ s[a + 1] = 46
           /\ b >= a + 2 /\ b + 1 <= Len(s) /\ s[b + 1] = 46
           /\ c >= b + 2
           /\ \/ c = Len(s)
              \/ c + 2 <= Len(s) /\ s[c + 1] = 45
        THEN Some([major |-> ParseU32(SubSeq(s, 1, a)),
                   minor |-> ParseU32(SubSeq(s, a + 2, b)),
                   patch |-> ParseU32(SubSeq(s, b + 2, c)),
                   pre_release |->
                        IF c = Len(s) THEN None
                        ELSE Some(SubSeq(s, c + 2, Len(s)))])
        ELSE None

RECURSIVE str_cmp(_, _)
\* <str as Ord>::cmp: byte by byte, a proper prefix is Less
str_cmp(a, b) ==
    IF a = <<>> /\ b = <<>> THEN "Equal"
    ELSE IF a = <<>> THEN "Less"
    ELSE IF b = <<>> THEN "Greater"
    ELSE IF Head(a) < Head(b) THEN "Less"
    ELSE IF Head(a) > Head(b) THEN "Greater"
    ELSE str_cmp(Tail(a), Tail(b))

\* u32::cmp
u32_cmp(a, b) ==
    IF a < b THEN "Less" ELSE IF a > b THEN "Greater" ELSE "Equal"

\* <Version as Ord>::cmp: major, minor, patch, then a release is Greater
\* than a pre-release, then the pre-release tags as strings
Version_cmp(self, other) ==
    IF u32_cmp(self.major, other.major) # "Equal"
    THEN u32_cmp(self.major, other.major)
    ELSE IF u32_cmp(self.minor, other.minor) # "Equal"
    THEN u32_cmp(self.minor, other.minor)
    ELSE IF u32_cmp(self.patch, other.patch) # "Equal"
    THEN u32_cmp(self.patch, other.patch)
    ELSE IF self.pre_release = None /\ other.pre_release = None THEN "Equal"
    ELSE IF self.pre_release = None THEN "Greater"
    ELSE IF other.pre_release = None THEN "Less"
    ELSE str_cmp(self.pre_release[1], other.pre_release[1])

\* VersionTracker::compare: the change_type follows new.cmp(old) when both
\* version strings parse; otherwise any difference is Increased
VersionTracker_compare(old_value, new_value) ==
    LET old_version_str == IF "version" \in DOMAIN old_value
                           THEN old_value.version ELSE <<>>
        new_version_str == IF "version" \in DOMAIN new_value
                           THEN new_value.version ELSE <<>>
        old_version == Version_parse(old_version_str)
        new_version == Version_parse(new_version_str)
    IN  IF old_version # None /\ new_version # None
        THEN LET ordering == Version_cmp(new_version[1], old_version[1])
                 change_type ==
                    CASE ordering = "Greater" -> "Increased"
                      [] ordering = "Less"    -> "Decreased"
                      [] ordering = "Equal"   -> "Unchanged"
             IN  [changed |-> change_type # "Unchanged",
                  change_type |-> change_type]
        ELSE [changed |-> old_version_str # new_version_str,
              change_type |-> IF old_version_str # new_version_str
                              THEN "Increased" ELSE "Unchanged"]

\* ------------------------------------------------- PriceComparison
\* f64::MAX, the amount of a value that has none: above every amount
f64_MAX == 2147483647

\* the quotient of two f64, kept exact
Frac(num, den) == [num |-> num, den |-> den]

\* PriceComparison::extract_amount on an object value: the amount string
\* parsed, else the number field, else None
extract_amount(value) ==
    IF "amount" \in DOMAIN value THEN ParseF64(value.amount)
    ELSE IF "number" \in DOMAIN value THEN Some(value.number)
    ELSE None

\* a comparison that puts a value without an amount below every amount
compare_values_unparsed_low(a, b) ==
    LET amount_a == unwrap_or(extract_amount(a), 0 - 1)
        amount_b == unwrap_or(extract_amount(b), 0 - 1)
    IN  IF amount_a < amount_b THEN "Less"
        ELSE IF amount_a > amount_b THEN "Greater"
        ELSE "Equal"

\* PriceComparison::compare_values: the Ordering of the two amounts
compare_values(a, b) ==
    LET amount_a == unwrap_or(extract_amount(a), f64_MAX)
        amount_b == unwrap_or(extract_amount(b), f64_MAX)
    IN  IF amount_a < amount_b THEN "Less"
        ELSE IF amount_a > amount_b THEN "Greater"
        ELSE "Equal"

RECURSIVE MinFrom(_, _, _)
\* the fold of Iterator::min_by from the i-th source on: the minimum so far
\* is kept unless it is Greater than the next source
MinFrom(sources, i, cur) ==
    IF i > Len(sources) THEN cur
    ELSE MinFrom(sources, i + 1,
                 IF compare_values(sources[cur].value, sources[i].value)
                        = "Greater"
                 THEN i ELSE cur)

\* a min_by that returns the last of several minima
min_by_last_minimum(sources) ==
    CHOOSE i \in DOMAIN sources :
        \A j \in DOMAIN sources :
            LET o == compare_values(sources[i].value, sources[j].value)
            IN  o # "Greater" /\ (o = "Equal" => j <= i)

\* sources.iter().min_by(compare_values): the index of the first minimum
min_by(sources) == MinFrom(sources, 2, 1)

RECURSIVE MaxFrom(_, _, _)
\* the fold of Iterator::max_by: the maximum so far is kept only while it is
\* Greater than the next source
MaxFrom(sources, i, cur) ==
    IF i > Len(sources) THEN cur
    ELSE MaxFrom(sources, i + 1,
                 IF compare_values(sources[cur].value, sources[i].value)
                        = "Greater"
                 THEN cur ELSE i)

\* sources.iter().max_by(compare_values): the index of the last maximum
max_by(sources) == MaxFrom(sources, 2, 1)

RECURSIVE SumSeq(_)
SumSeq(s) == IF s = <<>> THEN 0 ELSE Head(s) + SumSeq(Tail(s))

\* x = sum / n rounded to the nearest hundredth, as format!("{:.2}", x)
\* prints it
Round2(sum, n) == (2 * sum + n) \div (2 * n)

\* PriceComparison::calculate_average: the mean of the amounts that parse,
\* in the shape of the first source's value
calculate_average(sources) ==
    LET parsed  == SelectSeq(sources,
                             LAMBDA s : extract_amount(s.value) # None)
        amounts == [i \in DOMAIN parsed |-> extract_amount(parsed[i].value)[1]]
        sum     == SumSeq(amounts)
        first   == sources[1].value
    IN  IF amounts = <<>> THEN None
        ELSE IF "amount" \in DOMAIN first
        THEN Some(PriceValue(Format2(Round2(sum, Len(amounts))),
                             IF "currency" \in DOMAIN first
                             THEN first.currency ELSE "USD"))
        ELSE IF "number" \in DOMAIN first
        THEN Some(NumberValue(Frac(sum, Len(amounts))))
        ELSE Some([json_number |-> Frac(sum, Len(amounts))])

\* a PriceComparison::new that looks for a worst source in every list
PriceComparison_new_always_worst(sources) ==
    IF sources = <<>>
    THEN [ok |-> FALSE,
          error |-> "Cannot create price comparison with no sources"]
    ELSE LET best_source  == sources[min_by(sources)]
             worst_source == Some(sources[max_by(sources)])
             avg_value    == IF Len(sources) > 1
                             THEN calculate_average(sources) ELSE None
         IN  [ok |-> TRUE,
              best_source_id |-> best_source.source_id,
              best_value_json |-> to_string(best_source.value),
              worst_value_json |->
                    IF worst_source = None THEN None
                    ELSE Some(to_string(worst_source[1].value)),
              avg_value_json |->
                    IF avg_value = None THEN None
                    ELSE Some(to_string(avg_value[1]))]

\* PriceComparison::new(NewPriceComparison { sources, .. }): Err for no
\* sources, else the comparison (ok stands for Result's Ok)
PriceComparison_new(sources) ==
    IF sources = <<>>
    THEN [ok |-> FALSE,
          error |-> "Cannot create price comparison with no sources"]
    ELSE LET best_source  == sources[min_by(sources)]
             worst_source == IF Len(sources) > 1
                             THEN Some(sources[max_by(sources)]) ELSE None
             avg_value    == IF Len(sources) > 1
                             THEN calculate_average(sources) ELSE None
         IN  [ok |-> TRUE,
              best_source_id |-> best_source.source_id,
              best_value_json |-> to_string(best_source.value),
              worst_value_json |->
                    IF worst_source = None THEN None
                    ELSE Some(to_string(worst_source[1].value)),
              avg_value_json |->
                    IF avg_value = None THEN None
                    ELSE Some(to_string(avg_value[1]))]

get_best_value(c) == from_str(c.best_value_json)

get_worst_value(c) ==
    IF c.worst_value_json = None THEN None
    ELSE from_str(c.worst_value_json[1])

get_avg_value(c) ==
    IF c.avg_value_json = None THEN None
    ELSE from_str(c.avg_value_json[1])

\* savings computed as best minus worst
get_savings_reversed(c) ==
    LET worst == get_worst_value(c)
        best  == get_best_value(c)
    IN  IF worst = None \/ best = None THEN None
        ELSE IF extract_amount(worst[1]) = None THEN None
        ELSE IF extract_amount(best[1]) = None THEN None
        ELSE Some(extract_amount(best[1])[1] - extract_amount(worst[1])[1])

\* PriceComparison::get_savings: worst amount minus best amount
get_savings(c) ==
    LET worst == get_worst_value(c)
        best  == get_best_value(c)
    IN  IF worst = None \/ best = None THEN None
        ELSE IF extract_amount(worst[1]) = None THEN None
        ELSE IF extract_amount(best[1]) = None THEN None
        ELSE Some(extract_amount(worst[1])[1] - extract_amount(best[1])[1])

\* PriceComparison::get_savings_percentage: savings / worst * 100 as an
\* exact quotient, only for a worst amount above 0
get_savings_percentage(c) ==
    LET savings == get_savings(c)
        worst   == get_worst_value(c)
    IN  IF savings = None \/ worst = None THEN None
        ELSE IF extract_amount(worst[1]) = None THEN None
        ELSE IF extract_amount(worst[1])[1] > 0
        THEN Some(Frac(savings[1] * 100, extract_amount(worst[1])[1]))
        ELSE None

\* --------------------------------------------------------- the scraper
default_max_concurrent_checks == 5

\* BrowserPool::new: a browser per concurrent check, three at most
BrowserPool_new(max_concurrent_checks) ==
    [browsers |-> IF max_concurrent_checks < 3 THEN max_concurrent_checks
                  ELSE 3,
     current_index |-> 0]

\* BrowserPool::get_browser: the index of the browser it returns
get_browser(pool) == pool.current_index % pool.browsers

\* the scraper of the application before its first fetch
ScraperInit ==
    /\ browser_pool = BrowserPool_new(default_max_concurrent_checks)
    /\ fetches = <<>>

\* Selector::parse: whether the CSS selector parses
Selector_parse(selector) == selector \in {".price", "#total", "$"}

\* the ScrapeResult of a failed fetch; the message of the browser is left
\* out of the error
FailedScrape(request, error) ==
    [ok |-> TRUE, success |-> FALSE, text |-> None, error |-> Some(error),
     final_url |-> request.url]

\* Err(e) of scrape
ScrapeErr(error) ==
    [ok |-> FALSE, success |-> FALSE, text |-> None, error |-> Some(error),
     final_url |-> ""]

\* WebScraper::scrape(request) in a browser whose first failing operation
\* is env.fail, whose tab ends at env.url and whose page yields env.text
\* for the selector
WebScraper_scrape(request, env) ==
    LET final_url == IF env.url = "" THEN request.url ELSE env.url
        done == [ok |-> TRUE, success |-> TRUE, text |-> env.text,
                 error |-> None, final_url |-> final_url]
    IN  IF env.fail = "new_tab" THEN ScrapeErr("Failed to create tab")
        ELSE IF env.fail = "set_user_agent"
        THEN ScrapeErr("Failed to set user agent")
        ELSE IF env.fail = "navigate_to"
        THEN FailedScrape(request, "Navigation failed")
        ELSE IF env.fail = "wait_until_navigated"
        THEN FailedScrape(request, "Page load failed")
        ELSE IF request.wait_for_selector # None
                /\ env.fail = "wait_for_element"
        THEN FailedScrape(request,
                 "Wait for selector '" \o request.wait_for_selector[1]
                     \o "' failed")
        ELSE IF request.selector_type = "css"
        THEN IF env.fail = "get_content"
             THEN ScrapeErr("Failed to get page content")
             ELSE IF ~Selector_parse(request.selector)
             THEN ScrapeErr("Invalid CSS selector '" \o request.selector
                                \o "'")
             ELSE done
        ELSE IF request.selector_type = "xpath"
        THEN IF env.fail = "evaluate"
             THEN ScrapeErr("XPath evaluation failed")
             ELSE IF request.selector # "//span"    \* document.evaluate
             THEN ScrapeErr("XPath error")
             ELSE done
        ELSE IF request.selector_type = "text"
        THEN IF env.fail = "get_content"
             THEN ScrapeErr("Failed to get page content")
             ELSE [done EXCEPT !.text = IF env.text # None
                                        THEN Some(request.selector)
                                        ELSE None]
        ELSE FailedScrape(request,
                 "Unsupported selector type: " \o request.selector_type)

\* ------------------------------------------------- the product checker
\* the texts the selector of the mock source can yield
Texts == {"$19.50", "$20.00", "n/a"}

\* what WebScraper::scrape can return: Err(e), Ok with success false and an
\* error, Ok with success true and the text of the matched elements (None
\* when the selector matches nothing)
ScrapeOutcomes ==
    {[ok |-> FALSE, success |-> FALSE, text |-> None,
      error |-> Some("Failed to create tab")],
     [ok |-> TRUE, success |-> FALSE, text |-> None,
      error |-> Some("Navigation failed")],
     [ok |-> TRUE, success |-> TRUE, text |-> None, error |-> None]}
    \cup {[ok |-> TRUE, success |-> TRUE, text |-> Some(t), error |-> None] :
            t \in Texts}

\* extract_value: the tracker plugin of the product's kind parses the text;
\* None stands for Err
extract_value(text, tracker_type) ==
    IF tracker_type = "Price"
    THEN CASE text = "$19.50" -> Some(PriceValue("19.50", "USD"))
           [] text = "$20.00" -> Some(PriceValue("20.00", "USD"))
           [] OTHER -> None
    ELSE IF tracker_type = "Number"
    THEN CASE text = "$19.50" -> Some(NumberValue(1950))
           [] text = "$20.00" -> Some(NumberValue(2000))
           [] OTHER -> None
    ELSE None

\* a failed check that reports a changed value
FailedSourceCheck_changed(error) ==
    [success |-> FALSE, old_value |-> None, new_value |-> None,
     text_changed |-> FALSE, value_changed |-> TRUE,
     should_notify |-> FALSE, error |-> error]

\* a SourceCheckResult of a failed check
FailedSourceCheck(error) ==
    [success |-> FALSE, old_value |-> None, new_value |-> None,
     text_changed |-> FALSE, value_changed |-> FALSE,
     should_notify |-> FALSE, error |-> error]

\* check_source(&source, &product) with the outcome of the scrape; the
\* source is borrowed immutably and no field of it is written
check_source(s, product, scrape) ==
    IF ~scrape.ok THEN FailedSourceCheck(scrape.error)
    ELSE IF ~scrape.success THEN FailedSourceCheck(scrape.error)
    ELSE LET new_text  == unwrap_or(scrape.text, "")
             extracted == extract_value(new_text, product.tracker_type)
         IN  IF extracted = None
             THEN FailedSourceCheck(Some("Value extraction failed"))
             ELSE LET new_value == extracted[1]
                      old_text  == unwrap_or(s.current_text, "")
                      old_value == get_current_value(s)
                  IN  [success |-> TRUE, old_value |-> old_value,
                       new_value |-> Some(new_value),
                       text_changed |-> old_text # new_text,
                       value_changed |-> old_value # Some(new_value),
                       should_notify |->
                            should_notify(product, old_value, new_value),
                       error |-> None]

\* calculate_price_comparison(&source_results): the successful results
\* with a value are collected, and None is returned whatever their number
calculate_price_comparison(source_results) ==
    LET sources == SelectSeq(source_results,
                             LAMBDA r : r.success /\ r.new_value # None)
    IN  IF Len(sources) < 2 THEN None ELSE None

\* a ProductCheckResult that calls a run successful when a source was checked
ProductCheckResult_any_checked(product, source_results) ==
    LET sources_succeeded ==
            Cardinality({i \in DOMAIN source_results :
                            source_results[i].success})
    IN  [success |-> Len(source_results) > 0,
         sources_checked |-> Len(source_results),
         sources_succeeded |-> sources_succeeded,
         changes_detected |->
            Cardinality({i \in DOMAIN source_results :
                            source_results[i].value_changed}),
         notifications_sent |->
            Cardinality({i \in DOMAIN source_results :
                            source_results[i].should_notify
                            /\ product.is_active}),
         source_results |-> source_results,
         price_comparison |->
            IF product.tracker_type = "Price" /\ Len(source_results) > 1
            THEN calculate_price_comparison(source_results)
            ELSE None,
         error |-> None]

\* the ProductCheckResult check_product builds from the results of the
\* sources it checked, in the order it checked them
ProductCheckResult(product, source_results) ==
    LET sources_succeeded ==
            Cardinality({i \in DOMAIN source_results :
                            source_results[i].success})
    IN  [success |-> sources_succeeded > 0,
         sources_checked |-> Len(source_results),
         sources_succeeded |-> sources_succeeded,
         changes_detected |->
            Cardinality({i \in DOMAIN source_results :
                            source_results[i].value_changed}),
         notifications_sent |->
            Cardinality({i \in DOMAIN source_results :
                            source_results[i].should_notify
                            /\ product.is_active}),
         source_results |-> source_results,
         price_comparison |->
            IF product.tracker_type = "Price" /\ Len(source_results) > 1
            THEN calculate_price_comparison(source_results)
            ELSE None,
         error |-> None]

\* the product checker before its first run
NoRuns ==
    [runs |-> 0, failed |-> 0, succeeded |-> 0, first_text |-> None,
     result |-> None]

\* ------------------------------------------------------------- Init
SchedulerInit ==
    /\ sched = "new"
    /\ triggers = EmptyMap
    /\ jobs = EmptyMap
    /\ running_jobs = EmptyMap
    /\ nchecks = 0
    /\ tasks = EmptyMap
    /\ cleanups = EmptyMap
    /\ last = Call("new", 0, "Ok")

Init ==
    /\ SchedulerInit
    /\ ScraperInit
    /\ gate = None
    /\ source = Source_new
    /\ checker = NoRuns
    /\ history = <<>>
    /\ call = None

\* ------------------------------------------------------ start/shutdown
start ==
    /\ sched = "new"
    /\ sched' = "started"
    /\ last' = Call("start", 0, "Ok")
    /\ UNCHANGED checkerVars
    /\ UNCHANGED <<triggers, jobs, running_jobs, nchecks, tasks, cleanups>>

shutdown ==
    /\ sched = "started"
    /\ tasks' = [t \in DOMAIN tasks
                        \ {running_jobs[p] : p \in DOMAIN running_jobs}
                    |-> tasks[t]]
    /\ running_jobs' = EmptyMap
    /\ sched' = "shutdown"
    /\ last' = Call("shutdown", 0, "Ok")
    /\ UNCHANGED checkerVars
    /\ UNCHANGED <<triggers, jobs, nchecks, cleanups>>

\* ------------------------------------------------ unschedule_product
\* the state of (tasks, running_jobs, jobs) after unschedule_product
UnscheduleTasks(ts, rj, product_id) ==
    IF product_id \in DOMAIN rj THEN Abort(ts, rj[product_id]) ELSE ts

UnscheduleRunning(rj, product_id) == RemoveKey(rj, product_id)

UnscheduleJobs(js, product_id) == RemoveKey(js, product_id)

unschedule_product(product_id) ==
    /\ tasks' = UnscheduleTasks(tasks, running_jobs, product_id)
    /\ running_jobs' = UnscheduleRunning(running_jobs, product_id)
    /\ jobs' = UnscheduleJobs(jobs, product_id)
    /\ last' = Call("unschedule", product_id, "Ok")
    /\ UNCHANGED checkerVars
    /\ UNCHANGED <<sched, triggers, nchecks, cleanups>>

\* -------------------------------------------------- schedule_product
\* a guard that forgets is_paused
ScheduleRejectsIgnoresPaused(product) == ~product.is_active

\* the guard of schedule_product
ScheduleRejects(product) == ~product.is_active \/ product.is_paused

\* a schedule that keeps the JobInfo the product already has
ScheduleJobsKeepsOld(js, product, id) ==
    IF product.id \in DOMAIN js THEN js
    ELSE PutKey(js, product.id, NewJobInfo(id, product))

\* the jobs map after schedule_product: the old entry removed, the new
\* JobInfo inserted
ScheduleJobs(js, product, id) ==
    PutKey(UnscheduleJobs(js, product.id), product.id, NewJobInfo(id, product))

\* body of schedule_product after the guard
ScheduleBody(product, op) ==
    /\ tasks' = UnscheduleTasks(tasks, running_jobs, product.id)
    /\ running_jobs' = UnscheduleRunning(running_jobs, product.id)
    /\ IF JobNewAsyncOk(product.check_interval)
       THEN /\ triggers' = PutKey(triggers, product.id,
                                   TriggersOf(product.id) + 1)
            /\ jobs' = ScheduleJobs(jobs, product, NumTriggers + 1)
            /\ last' = CallP(op, product, "Ok")
       ELSE /\ triggers' = triggers
            /\ jobs' = UnscheduleJobs(jobs, product.id)
            /\ last' = CallP(op, product, "ErrCron")
    /\ UNCHANGED checkerVars
    /\ UNCHANGED <<sched, nchecks, cleanups>>

schedule_product(product) ==
    IF ScheduleRejects(product)
    THEN /\ last' = CallP("schedule", product, "ErrInactive")
         /\ UNCHANGED checkerVars
         /\ UNCHANGED <<sched, triggers, jobs, running_jobs, nchecks, tasks,
                        cleanups>>
    ELSE ScheduleBody(product, "schedule")

\* ------------------------------------------------ reschedule_product
reschedule_product(product) ==
    IF product.is_active /\ ~product.is_paused
    THEN ScheduleBody(product, "reschedule")
    ELSE /\ tasks' = UnscheduleTasks(tasks, running_jobs, product.id)
         /\ running_jobs' = UnscheduleRunning(running_jobs, product.id)
         /\ jobs' = UnscheduleJobs(jobs, product.id)
         /\ last' = CallP("reschedule", product, "Ok")
         /\ UNCHANGED checkerVars
         /\ UNCHANGED <<sched, triggers, nchecks, cleanups>>

\* ------------------------------------------------ pause_job/resume_job
\* a status change that reaches every job instead of one
SetStatusOfAll(js, product_id, status) ==
    [p \in DOMAIN js |-> [js[p] EXCEPT !.status = status]]

\* job_info.status = status, on the entry of product_id
SetStatus(js, product_id, status) ==
    [js EXCEPT ![product_id].status = status]

\* a pause that inserts an entry when the product has none
pause_job_upsert(product_id) ==
    /\ jobs' = IF product_id \in DOMAIN jobs
               THEN SetStatus(jobs, product_id, "Paused")
               ELSE PutKey(jobs, product_id,
                        [NewJobInfo(0, [id |-> product_id,
                                        check_interval |-> ""])
                         EXCEPT !.status = "Paused"])
    /\ last' = Call("pause", product_id, "Ok")
    /\ UNCHANGED checkerVars
    /\ UNCHANGED <<sched, triggers, running_jobs, nchecks, tasks, cleanups>>

pause_job(product_id) ==
    /\ IF product_id \in DOMAIN jobs
       THEN /\ jobs' = SetStatus(jobs, product_id, "Paused")
            /\ last' = Call("pause", product_id, "Ok")
       ELSE /\ jobs' = jobs
            /\ last' = Call("pause", product_id, "ErrNotFound")
    /\ UNCHANGED checkerVars
    /\ UNCHANGED <<sched, triggers, running_jobs, nchecks, tasks, cleanups>>

resume_job(product_id) ==
    /\ IF product_id \in DOMAIN jobs
       THEN /\ jobs' = SetStatus(jobs, product_id, "Active")
            /\ last' = Call("resume", product_id, "Ok")
       ELSE /\ jobs' = jobs
            /\ last' = Call("resume", product_id, "ErrNotFound")
    /\ UNCHANGED checkerVars
    /\ UNCHANGED <<sched, triggers, running_jobs, nchecks, tasks, cleanups>>

\* -------------------------------------------------------- the cron job
\* the closure of Job::new_async, run by the JobScheduler on a cron tick of
\* one of the cron jobs of product pid: spawn the check, store its handle,
\* spawn the cleanup
CronFire(pid) ==
    /\ sched = "started"
    /\ TriggersOf(pid) > 0
    /\ LET tid == nchecks + 1
       IN  /\ nchecks' = tid
           /\ tasks' = PutKey(tasks, tid,
                    [pid |-> pid, kind |-> "cron", job |-> JobIdOf(pid)])
           /\ running_jobs' = PutKey(running_jobs, pid, tid)
           /\ cleanups' = PutKey(cleanups, tid, pid)
           /\ last' = Call("fire", pid, "Ok")
    /\ UNCHANGED checkerVars
    /\ UNCHANGED <<sched, triggers, jobs>>

\* the cleanup task of a fire, after its 100 ms sleep
CronCleanup(tid) ==
    /\ tid \in DOMAIN cleanups
    /\ running_jobs' = RemoveKey(running_jobs, cleanups[tid])
    /\ cleanups' = RemoveKey(cleanups, tid)
    /\ last' = Call("cleanup", cleanups[tid], "Ok")
    /\ UNCHANGED checkerVars
    /\ UNCHANGED <<sched, triggers, jobs, nchecks, tasks>>

\* execute_product_check: a spawned check completes with some result
execute_product_check(tid, result) ==
    /\ tid \in DOMAIN tasks
    /\ tasks[tid].kind = "cron"
    /\ jobs' = update_job_stats_internal(jobs, tasks[tid].pid, result)
    /\ tasks' = RemoveKey(tasks, tid)
    /\ last' = Call("check_done", tasks[tid].pid, Outcome(result))
    /\ UNCHANGED checkerVars
    /\ UNCHANGED <<sched, triggers, running_jobs, nchecks, cleanups>>

\* ------------------------------------------------------- run_job_now
\* run_job_now up to its call of check_product
run_job_now(product_id) ==
    IF is_job_running(product_id)
    THEN /\ last' = Call("run_now", product_id, "ErrRunning")
         /\ UNCHANGED checkerVars
         /\ UNCHANGED <<sched, triggers, jobs, running_jobs, nchecks, tasks,
                        cleanups>>
    ELSE /\ nchecks' = nchecks + 1
         /\ tasks' = PutKey(tasks, nchecks + 1,
                [pid |-> product_id, kind |-> "now",
                 job |-> JobIdOf(product_id)])
         /\ last' = Call("run_now_check", product_id, "Pending")
         /\ UNCHANGED checkerVars
         /\ UNCHANGED <<sched, triggers, jobs, running_jobs, cleanups>>

\* run_job_now from the return of check_product: update the statistics
run_job_now_done(tid, result) ==
    /\ tid \in DOMAIN tasks
    /\ tasks[tid].kind = "now"
    /\ jobs' = update_job_stats_internal(jobs, tasks[tid].pid, result)
    /\ tasks' = RemoveKey(tasks, tid)
    /\ last' = Call("run_now", tasks[tid].pid, Outcome(result))
    /\ UNCHANGED checkerVars
    /\ UNCHANGED <<sched, triggers, running_jobs, nchecks, cleanups>>

\* ---------------------------------------------------------------- Next
\* does this call add a cron job to the JobScheduler
AddsJob(product) ==
    /\ product.is_active /\ ~product.is_paused
    /\ JobNewAsyncOk(product.check_interval)

\* shutdown is the last call made on a scheduler; tasks it did not abort and
\* pending cleanups still run to their end afterwards
Live == sched # "shutdown"

\* The calls a client makes; maxt and maxc bound the cron jobs added and the
\* checks started.
Api(ps, inputs, maxt, maxc) ==
    \/ \E product \in inputs :
            /\ Live
            /\ AddsJob(product) => NumTriggers < maxt
            /\ schedule_product(product)
    \/ \E p \in ps : Live /\ unschedule_product(p)
    \/ \E product \in inputs :
            /\ Live
            /\ AddsJob(product) => NumTriggers < maxt
            /\ reschedule_product(product)
    \/ \E p \in ps : Live /\ pause_job(p)
    \/ \E p \in ps : Live /\ resume_job(p)
    \/ \E p \in ps :
            /\ Live
            /\ is_job_running(p) \/ nchecks < maxc
            /\ run_job_now(p)

\* The steps of the JobScheduler and of the tasks it spawned
Background(ps, maxc) ==
    \/ \E p \in ps : nchecks < maxc /\ CronFire(p)
    \/ \E t \in DOMAIN cleanups : CronCleanup(t)
    \/ \E t \in DOMAIN tasks, r \in CheckResults :
            execute_product_check(t, r)
    \/ \E t \in DOMAIN tasks, r \in CheckResults : run_job_now_done(t, r)

Next ==
    \/ start
    \/ shutdown
    \/ Api(Products, ProductInputs, MaxTriggers, MaxChecks)
    \/ Background(Products, MaxChecks)

Spec == Init /\ [][Next]_vars

\* ------------------------------------------------ the load scenario
\* Three active products on one cron expression, as in the overflow
\* scenario (max_running_jobs = 2, three products fire in the same tick)
LoadNumProducts == 3
LoadTriggers    == 3
LoadChecks      == 3

LoadProducts == 1..LoadNumProducts

NextLoad ==
    \/ start
    \/ \E product \in [id : LoadProducts, is_active : {TRUE},
                        is_paused : {FALSE},
                        check_interval : {"*/5 * * * *"}] :
            NumTriggers < LoadTriggers /\ schedule_product(product)
    \/ \E p \in LoadProducts :
            (is_job_running(p) \/ nchecks < LoadChecks) /\ run_job_now(p)
    \/ Background(LoadProducts, LoadChecks)

SpecLoad == Init /\ [][NextLoad]_vars

\* --------------------------------------------- the statistics scenario
\* One product that is scheduled and checked repeatedly, by its cron job
\* and by run_job_now
StatsNumProducts == 1
StatsTriggers    == 1
StatsChecks      == 2

StatsProducts == 1..StatsNumProducts

StatsInputs ==
    [id : StatsProducts, is_active : {TRUE}, is_paused : {FALSE},
     check_interval : {"0 * * * *"}]

NextStats ==
    \/ start
    \/ \E product \in StatsInputs :
            NumTriggers < StatsTriggers /\ schedule_product(product)
    \/ \E p \in StatsProducts :
            (is_job_running(p) \/ nchecks < StatsChecks) /\ run_job_now(p)
    \/ Background(StatsProducts, StatsChecks)

SpecStats == Init /\ [][NextStats]_vars

\* ---------------------------------------------- the life of one job
\* Every call of the scheduler on the product of the statistics scenario,
\* next to its cron-fired checks
NextLife ==
    \/ start
    \/ shutdown
    \/ Api(StatsProducts, StatsInputs, StatsTriggers, StatsChecks)
    \/ Background(StatsProducts, StatsChecks)

SpecLife == Init /\ [][NextLife]_vars

\* ------------------------------------------- the notification gate
\* One call of Product::should_notify on inputs drawn from GateCalls
InitGate ==
    /\ SchedulerInit
    /\ ScraperInit
    /\ gate \in GateCalls
    /\ source = Source_new
    /\ checker = NoRuns
    /\ history = <<>>
    /\ call = None

CallShouldNotify ==
    /\ gate.res = None
    /\ gate' = [gate EXCEPT !.res =
                    Some(should_notify(gate.product, gate.old_value,
                                       gate.new_value))]
    /\ UNCHANGED <<sched, triggers, jobs, running_jobs, nchecks, tasks,
                   cleanups, last, source, checker, history, call,
                   browser_pool, fetches>>

NextGate == CallShouldNotify

SpecGate == InitGate /\ [][NextGate]_vars

\* ------------------------------------------------ the product checker
MaxRuns == 6            \* runs of check_product on one product


\* a check_product that gives up at the first failed source and returns the
\* result of a run without sources
check_product_aborting(product, scrape) ==
    LET mock_source == Source_new
        result == check_source(mock_source, product, scrape)
    IN  /\ source' = mock_source
        /\ checker' =
              [runs |-> checker.runs + 1,
               failed |-> IF result.success THEN 0 ELSE checker.failed + 1,
               succeeded |-> checker.succeeded
                                + IF result.success THEN 1 ELSE 0,
               first_text |->
                    IF result.success /\ checker.first_text = None
                    THEN scrape.text ELSE checker.first_text,
               result |-> Some(ProductCheckResult(product,
                            IF result.success THEN <<result>> ELSE <<>>))]
        /\ UNCHANGED <<sched, triggers, jobs, running_jobs, nchecks, tasks,
                       cleanups, last, gate, history, call,
                   browser_pool, fetches>>

\* check_product(&product): build the mock source, check it, count, return
\* the ProductCheckResult. The source is neither filtered by should_retry
\* nor written after the check, and no PriceHistory is created. runs,
\* failed, succeeded and first_text record the history of the checks: their
\* number, the failed ones since the last successful one, the successful
\* ones, the text of the first successful one.
check_product(product, scrape) ==
    LET mock_source == Source_new
        result == check_source(mock_source, product, scrape)
    IN  /\ source' = mock_source
        /\ checker' =
              [runs |-> checker.runs + 1,
               failed |-> IF result.success THEN 0 ELSE checker.failed + 1,
               succeeded |-> checker.succeeded
                                + IF result.success THEN 1 ELSE 0,
               first_text |->
                    IF result.success /\ checker.first_text = None
                    THEN scrape.text ELSE checker.first_text,
               result |-> Some(ProductCheckResult(product, <<result>>))]
        /\ UNCHANGED <<sched, triggers, jobs, running_jobs, nchecks, tasks,
                       cleanups, last, gate, history, call,
                   browser_pool, fetches>>

NextChecker ==
    \E product \in {p \in GateProducts : p.tracker_type = "Price"},
       scrape \in ScrapeOutcomes :
        checker.runs < MaxRuns /\ check_product(product, scrape)

SpecChecker == Init /\ [][NextChecker]_vars

\* ------------------------------------- the result of a product run
\* The part of check_product after the sources are chosen (its loop over
\* the sources and the ProductCheckResult it returns), applied to the
\* results of zero to MaxSources sources.
MaxSources == 2         \* sources of one product

\* the products of the runs: price and number trackers, active or not
RunProducts ==
    {p \in GateProducts : /\ p.tracker_type \in {"Price", "Number"}
                          /\ p.notify_on = "AnyChange"
                          /\ p.threshold_type = None}

\* a source of the product: never checked, or holding the value of an
\* earlier check
RunSources(product) ==
    {Source_new,
     update_value(Source_new, "$20.00",
                  to_string(extract_value("$20.00",
                                          product.tracker_type)[1]), 1)}

\* the SourceCheckResults check_source can return for the product
SourceResults(product) ==
    {check_source(s, product, scrape) :
        s \in RunSources(product), scrape \in ScrapeOutcomes}

RECURSIVE SeqsUpTo(_, _)
\* the sequences of at most n elements of S
SeqsUpTo(S, n) ==
    IF n = 0 THEN {<<>>}
    ELSE LET shorter == SeqsUpTo(S, n - 1)
         IN  shorter \cup {Append(q, x) : q \in shorter, x \in S}

RunCalls ==
    UNION {{[op |-> "check_product", product |-> p, source_results |-> rs,
             res |-> None] : rs \in SeqsUpTo(SourceResults(p), MaxSources)} :
           p \in RunProducts}

InitRun ==
    /\ SchedulerInit
    /\ ScraperInit
    /\ gate = None
    /\ source = Source_new
    /\ checker = NoRuns
    /\ history = <<>>
    /\ call \in RunCalls

\* the loop of check_product over the sources and its return value
CallCheckProduct ==
    /\ call.res = None
    /\ call' = [call EXCEPT !.res =
                    Some(ProductCheckResult(call.product,
                                            call.source_results))]
    /\ UNCHANGED <<sched, triggers, jobs, running_jobs, nchecks, tasks,
                   cleanups, last, gate, source, checker, history,
                   browser_pool, fetches>>

NextRun == CallCheckProduct

SpecRun == InitRun /\ [][NextRun]_vars

\* ------------------------------------------ the life of a source
\* A source that is written by its three writers: Source::update_value
\* after a successful check, Source::record_error after a failed one, and
\* Source::update by an administrator. call records the last of them, its
\* UpdateSource and the source before it.
MaxErrors == 6          \* failed checks in a row

\* the UpdateSources of an administrator
UpdateSources ==
    [store_name : {None, Some("Shop")},
     title : {None, Some("New title")},
     selector : {None, Some("#cost")},
     selector_type : {None, Some("Xpath")},
     is_active : {None, Some(FALSE), Some(TRUE)}]

\* an UpdateSource without a field
NoUpdate ==
    [store_name |-> None, title |-> None, selector |-> None,
     selector_type |-> None, is_active |-> None]

InitSource ==
    /\ SchedulerInit
    /\ ScraperInit
    /\ gate = None
    /\ source = Source_new
    /\ checker = NoRuns
    /\ history = <<>>
    /\ call = [op |-> "new", update |-> NoUpdate, before |-> Source_new]

SourceUpdate(update) ==
    /\ source' = Source_update(source, update)
    /\ call' = [op |-> "update", update |-> update, before |-> source]
    /\ UNCHANGED <<sched, triggers, jobs, running_jobs, nchecks, tasks,
                   cleanups, last, gate, checker, history,
                   browser_pool, fetches>>

SourceUpdateValue(text) ==
    /\ extract_value(text, "Price") # None
    /\ source' = update_value(source, text,
                              to_string(extract_value(text, "Price")[1]), 1)
    /\ call' = [op |-> "update_value", update |-> NoUpdate,
                before |-> source]
    /\ UNCHANGED <<sched, triggers, jobs, running_jobs, nchecks, tasks,
                   cleanups, last, gate, checker, history,
                   browser_pool, fetches>>

SourceRecordError ==
    /\ source.error_count < MaxErrors
    /\ source' = record_error(source, "Navigation failed", 1)
    /\ call' = [op |-> "record_error", update |-> NoUpdate,
                before |-> source]
    /\ UNCHANGED <<sched, triggers, jobs, running_jobs, nchecks, tasks,
                   cleanups, last, gate, checker, history,
                   browser_pool, fetches>>

NextSource ==
    \/ \E update \in UpdateSources : SourceUpdate(update)
    \/ \E text \in Texts : SourceUpdateValue(text)
    \/ SourceRecordError

SpecSource == InitSource /\ [][NextSource]_vars

\* ------------------------------------------ the fetches of the scraper
\* Tasks of the multi-threaded runtime call WebScraper::scrape of one
\* scraper. A call takes its browser from the pool and then works in a tab
\* of that browser until it returns; call records the last call that
\* returned.
MaxConcurrentChecks == 4    \* scraper.max_concurrent_checks of the config
MaxFetches == 3             \* calls of scrape

\* the ScrapeRequests of the fetches
ScrapeRequests ==
    {[url |-> "https://shop.example/p", selector |-> r[1],
      selector_type |-> r[2], wait_for_selector |-> r[3]] :
        r \in {<<".price", "css", None>>, <<">>>", "css", None>>,
               <<".price", "css", Some("#total")>>,
               <<"//span", "xpath", None>>, <<"$", "text", None>>,
               <<".price", "regex", None>>}}

InitScraper ==
    /\ SchedulerInit
    /\ gate = None
    /\ source = Source_new
    /\ checker = NoRuns
    /\ history = <<>>
    /\ call = [op |-> "new"]
    /\ \E max_concurrent_checks \in 1..MaxConcurrentChecks :
          browser_pool = BrowserPool_new(max_concurrent_checks)
    /\ fetches = <<>>

\* scrape up to the browser it took from the pool
scrape_get_browser(request) ==
    /\ browser_pool.current_index < MaxFetches
    /\ browser_pool' = [browser_pool EXCEPT !.current_index = @ + 1]
    /\ fetches' = [f \in DOMAIN fetches \cup {browser_pool.current_index + 1}
                     |-> IF f \in DOMAIN fetches THEN fetches[f]
                         ELSE [browser |-> get_browser(browser_pool),
                               request |-> request]]
    /\ UNCHANGED <<sched, triggers, jobs, running_jobs, nchecks, tasks,
                   cleanups, last, gate, source, checker, history, call>>

\* scrape from the new tab to its return
scrape_return(f, env) ==
    /\ f \in DOMAIN fetches
    /\ call' = [op |-> "scrape", request |-> fetches[f].request,
                env |-> env,
                res |-> WebScraper_scrape(fetches[f].request, env)]
    /\ fetches' = RemoveKey(fetches, f)
    /\ UNCHANGED <<sched, triggers, jobs, running_jobs, nchecks, tasks,
                   cleanups, last, gate, source, checker, history,
                   browser_pool>>

NextScraper ==
    \/ \E request \in ScrapeRequests : scrape_get_browser(request)
    \/ \E f \in 1..MaxFetches,
          env \in [fail : {"none", "new_tab", "set_user_agent",
                           "navigate_to", "wait_until_navigated",
                           "wait_for_element", "get_content", "evaluate"},
                   url : {"", "https://shop.example/p?ref=1"},
                   text : {None, Some("$19.50")}] :
            scrape_return(f, env)

SpecScraper == InitScraper /\ [][NextScraper]_vars

\* ------------------------------------------ the cron validation
\* One call of validate_cron_expression on a string of at most MaxCronLen
\* characters.
MaxCronLen == 9         \* characters of a cron expression

\* the call on the string s, not yet made
CronCall(s) ==
    [op |-> "validate_cron_expression", expression |-> s, res |-> None]

InitCron ==
    /\ SchedulerInit
    /\ ScraperInit
    /\ gate = None
    /\ source = Source_new
    /\ checker = NoRuns
    /\ history = <<>>
    /\ \E A \in {{"5", "*", " ", "x"}, {"-", ",", "\t"}, {"/", " ", "\t"}},
          n \in 0..MaxCronLen :
            \E s \in [1..n -> A] : call = CronCall(s)

CallValidateCron ==
    /\ call.res = None
    /\ call' = [call EXCEPT !.res =
                    Some(validate_cron_expression(call.expression))]
    /\ UNCHANGED <<sched, triggers, jobs, running_jobs, nchecks, tasks,
                   cleanups, last, gate, source, checker, history,
                   browser_pool, fetches>>

NextCron == CallValidateCron

SpecCron == InitCron /\ [][NextCron]_vars

\* ------------------------------------------ the version comparison
\* One call of VersionTracker::compare on the values of two versions.
\* the versions compared; the pre-release tags are "2", "10" and "a"
Versions ==
    [major : {2, 10}, minor : {0, 1}, patch : {0},
     pre_release : {None} \cup {Some(t) : t \in {<<50>>, <<49, 48>>, <<97>>}}]

\* the value VersionTracker::parse yields for a version
VersionTracker_parse(v) ==
    [version |-> Version_fmt(v), major |-> v.major, minor |-> v.minor,
     patch |-> v.patch, pre_release |-> v.pre_release]

VersionCalls ==
    {[op |-> "compare", va |-> va, vb |-> vb,
      old_value |-> VersionTracker_parse(va),
      new_value |-> VersionTracker_parse(vb), res |-> None] :
        va \in Versions, vb \in Versions}

InitVersion ==
    /\ SchedulerInit
    /\ ScraperInit
    /\ gate = None
    /\ source = Source_new
    /\ checker = NoRuns
    /\ history = <<>>
    /\ call \in VersionCalls

CallCompare ==
    /\ call.res = None
    /\ call' = [call EXCEPT !.res =
                    Some(VersionTracker_compare(call.old_value,
                                                call.new_value))]
    /\ UNCHANGED <<sched, triggers, jobs, running_jobs, nchecks, tasks,
                   cleanups, last, gate, source, checker, history,
                   browser_pool, fetches>>

NextVersion == CallCompare

SpecVersion == InitVersion /\ [][NextVersion]_vars

\* ------------------------------------------ the price comparison
\* One call of PriceComparison::new on a list of zero to MaxCompared
\* sources.
MaxCompared == 3        \* sources of one comparison

\* the values of the compared sources: prices, numbers, and two values
\* without an amount
ComparedValues ==
    {PriceValue(a, "USD") : a \in AmountStrings \cup {"0.00", "N/A"}}
    \cup {NumberValue(1950), NumberValue(2200), VersionValue("1.0.0")}

\* the SourceComparisons of the values vs, the i-th with the id "s<i>"
SourceComparisons(vs) ==
    [i \in DOMAIN vs |-> [source_id |-> "s" \o ToString(i), value |-> vs[i]]]

ComparisonCalls ==
    {[op |-> "PriceComparison::new", sources |-> SourceComparisons(vs),
      res |-> None] : vs \in SeqsUpTo(ComparedValues, MaxCompared)}

InitComparison ==
    /\ SchedulerInit
    /\ ScraperInit
    /\ gate = None
    /\ source = Source_new
    /\ checker = NoRuns
    /\ history = <<>>
    /\ call \in ComparisonCalls

CallPriceComparisonNew ==
    /\ call.res = None
    /\ call' = [call EXCEPT !.res = Some(PriceComparison_new(call.sources))]
    /\ UNCHANGED <<sched, triggers, jobs, running_jobs, nchecks, tasks,
                   cleanups, last, gate, source, checker, history,
                   browser_pool, fetches>>

NextComparison == CallPriceComparisonNew

SpecComparison == InitComparison /\ [][NextComparison]_vars

\* =================================================================
\* Properties
\* =================================================================

\* C1: for any product, at no instant are two check tasks of that product
\* in flight at the same time (a cron fire that arrives while the previous
\* run is still in flight spawns no task).
AtMostOneCheckPerProduct ==
    \A t1 \in ScheduledTasks, t2 \in ScheduledTasks :
        tasks[t1].pid = tasks[t2].pid => t1 = t2

\* C2: at every instant the number of in-flight scheduled check tasks is at
\* most scheduler.max_running_jobs.
RunningWithinCap == Cardinality(ScheduledTasks) <= max_running_jobs

\* C3: a cron fire that arrives when max_running_jobs scheduled checks are in
\* flight spawns no task and is recorded in the JobInfo of its product:
\* error_count + 1 and last_error = "overflow".
OverflowIsRecorded ==
    [][(/\ last'.op = "fire"
        /\ Cardinality(ScheduledTasks) >= max_running_jobs
        /\ last'.pid \in DOMAIN jobs)
       => /\ tasks' = tasks
          /\ last'.pid \in DOMAIN jobs'
          /\ jobs'[last'.pid].error_count = jobs[last'.pid].error_count + 1
          /\ jobs'[last'.pid].last_error = "overflow"]_vars

\* C4: a cron tick of a product whose job is Paused spawns no check; a cron
\* tick of a product whose job is Active (so also after resume) spawns one.
PausedJobsDoNotFire ==
    [][(last'.op = "fire" /\ last'.pid \in DOMAIN jobs)
       => /\ jobs[last'.pid].status = "Paused" => tasks' = tasks
          /\ jobs[last'.pid].status = "Active" =>
                Cardinality(DOMAIN tasks') = Cardinality(DOMAIN tasks) + 1]_vars

\* C5: when unschedule(product_id) returns no scheduled check task of that
\* product is in flight any more, and when shutdown returns no scheduled
\* check task of any product is.
CancelAbortsInFlight ==
    /\ last.op = "unschedule" =>
            \A t \in ScheduledTasks : tasks[t].pid # last.pid
    /\ last.op = "shutdown" => ScheduledTasks = {}

\* C6: a product has a cron job in the JobScheduler only while it has a
\* JobInfo, and never more than one.
OneTriggerPerJobInfo ==
    \A p \in DOMAIN triggers :
        /\ triggers[p] <= 1
        /\ p \notin DOMAIN jobs => triggers[p] = 0

\* C7: schedule(product) fails when the product is inactive or paused, and
\* the failed call leaves the jobs map, the running-task map, the cron jobs
\* and the tasks exactly as they were.
RejectedScheduleChangesNothing ==
    [][(last'.op = "schedule" /\ (~last'.is_active \/ last'.is_paused))
       => /\ last'.res = "ErrInactive"
          /\ UNCHANGED <<sched, triggers, jobs, running_jobs, nchecks, tasks,
                          cleanups>>]_vars

\* C7 witness: a rejected schedule of a product that has a job installed
\* and a check task registered as running
RejectedScheduleWitness ==
    /\ last.op = "schedule" /\ last.res = "ErrInactive"
    /\ last.pid \in DOMAIN jobs
    /\ last.pid \in DOMAIN running_jobs
    /\ running_jobs[last.pid] \in DOMAIN tasks

PauseResumeOfMissingJobFail ==
    [][(last'.op \in {"pause", "resume"} /\ last'.pid \notin DOMAIN jobs)
       => /\ last'.res = "ErrNotFound"
          /\ last'.pid \notin DOMAIN jobs'
          /\ jobs' = jobs]_vars

\* C10 witness: a failed pause of a product without JobInfo while another
\* product has one
MissingJobWitness ==
    /\ last.op = "pause" /\ last.res = "ErrNotFound"
    /\ get_job_info(last.pid) = "None"
    /\ jobs # EmptyMap

\* C11: run_now(product_id, product) fails, without invoking the product
\* checker and without changing any JobInfo, when a scheduled check task of
\* that product is in flight; otherwise it performs exactly one check, and
\* when that check returns the run_count of the product's JobInfo has
\* increased by exactly 1.
RunNowFailsWhileCheckRuns ==
    [][/\ (/\ last'.op \in {"run_now", "run_now_check"}
           /\ last'.res \in {"ErrRunning", "Pending"}
           /\ \E t \in ScheduledTasks : tasks[t].pid = last'.pid)
          => /\ last'.res = "ErrRunning"
             /\ tasks' = tasks
             /\ jobs' = jobs
       /\ (last'.op = "run_now_check" /\ last'.res = "Pending")
          => Cardinality(DOMAIN tasks') = Cardinality(DOMAIN tasks) + 1
       /\ (/\ last'.op = "run_now"
           /\ last'.res \in {"Success", "Failed"}
           /\ last'.pid \in DOMAIN jobs)
          => jobs'[last'.pid].run_count = jobs[last'.pid].run_count + 1
      ]_vars

\* C12: when a check of a product completes, exactly one of success_count
\* and error_count of its JobInfo increases by 1 and the status follows the
\* outcome: a successful run clears last_error and moves a job in status
\* Error back to Active, a failed run moves the job to status Error.
CompletedCheckUpdatesJobInfo ==
    [][(/\ last'.op \in {"check_done", "run_now"}
        /\ last'.res \in {"Success", "Failed"}
        /\ last'.pid \in DOMAIN jobs)
       => LET old == jobs[last'.pid]
              new == jobs'[last'.pid]
          IN  /\ last'.res = "Success" =>
                    /\ new.success_count = old.success_count + 1
                    /\ new.error_count = old.error_count
                    /\ new.last_error = "None"
                    /\ old.status = "Error" => new.status = "Active"
              /\ last'.res = "Failed" =>
                    /\ new.error_count = old.error_count + 1
                    /\ new.success_count = old.success_count
                    /\ new.status = "Error"
      ]_vars

\* C12 witness: a successful check has completed on a job that had failed
\* before, and the job is Active again
RecoveredJobWitness ==
    /\ last.op \in {"check_done", "run_now"}
    /\ last.res = "Success"
    /\ last.pid \in DOMAIN jobs
    /\ jobs[last.pid].error_count >= 1
    /\ jobs[last.pid].success_count = 1
    /\ jobs[last.pid].status = "Active"

\* C13: every failed product run increments the JobInfo's error_count, is
\* counted in the scheduler's failed_runs, and records a last_error:
\* whenever a job's status is Error, its last_error is set.
FailedRunRecordsLastError ==
    /\ (/\ last.op \in {"check_done", "run_now"}
        /\ last.res = "Failed"
        /\ last.pid \in DOMAIN jobs)
       => /\ jobs[last.pid].error_count >= 1
          /\ get_stats.failed_runs >= 1
          /\ jobs[last.pid].last_error # "None"
    /\ \A p \in DOMAIN jobs :
            jobs[p].status = "Error" => jobs[p].last_error # "None"

\* C14: should_notify returns false whenever there is no previous value
\* (the first successful check of a source) and whenever the previous value
\* equals the new value, for every notify policy, tracker kind and threshold
\* setting.
FirstAndUnchangedAreSilent ==
    (gate.res # None
     /\ (gate.old_value = None \/ gate.old_value = Some(gate.new_value)))
    => gate.res = Some(FALSE)

\* C14 witness: the gate was called without a previous value on a product
\* that notifies on any change and has no threshold
FirstCheckWitness ==
    /\ gate.res = Some(FALSE)
    /\ gate.old_value = None
    /\ gate.product.notify_on = "AnyChange"
    /\ gate.product.threshold_type = None

\* the number the gate compares: extract_number, 0 when there is none
Numeric(value) == unwrap_or(extract_number(value), 0)

\* C15: under policy Decrease the gate fires only if the kind is Price or
\* Number and numeric(new) < numeric(old), and never for Version; under
\* policy Increase it fires only if numeric(new) > numeric(old) for Price or
\* Number, or, for Version, on any distinct change.
PolicyFollowsDirection ==
    gate.res = Some(TRUE) =>
        LET old == gate.old_value[1]
            new == gate.new_value
            numeric_kind == gate.product.tracker_type \in {"Price", "Number"}
        IN  /\ gate.product.notify_on = "Decrease" =>
                    numeric_kind /\ Numeric(new) < Numeric(old)
            /\ gate.product.notify_on = "Increase" =>
                    IF numeric_kind THEN Numeric(new) > Numeric(old)
                    ELSE old # new

\* C15 witness: the gate fired for a price under policy Decrease
DecreaseFiredWitness ==
    /\ gate.res = Some(TRUE)
    /\ gate.product.notify_on = "Decrease"
    /\ gate.product.tracker_type = "Price"

Abs(x) == IF x < 0 THEN 0 - x ELSE x

\* C16: when a product has a threshold configured, the gate fires only if
\* the change reaches it: |new - old| >= x for an Absolute threshold x,
\* |new - old| / |old| >= pct / 100 for a Relative threshold pct (never when
\* |old| = 0).
ThresholdGatesNotification ==
    (gate.res = Some(TRUE)
     /\ gate.product.tracker_type \in {"Price", "Number"})
    => LET old == Numeric(gate.old_value[1])
           new == Numeric(gate.new_value)
       IN  /\ gate.product.threshold_type = Some("Absolute") =>
                    Abs(new - old) >= gate.product.threshold_value[1]
           /\ gate.product.threshold_type = Some("Relative") =>
                    /\ Abs(old) # 0
                    /\ Abs(new - old) * 100
                            >= gate.product.threshold_value[1] * Abs(old)

\* the SourceCheckResult of the last run of the product checker
LastSourceResult == checker.result[1].source_results[1]

\* C17: the first successful check of a source sets original_text and
\* original_value equal to the new current value, and no later successful
\* check alters them, whatever values later checks observe.
OriginalSetOnceByFirstCheck ==
    checker.first_text # None =>
        /\ source.original_text = checker.first_text
        /\ source.original_value_json =
                Some(to_string(extract_value(checker.first_text[1],
                                             "Price")[1]))

\* C18: the product checker never checks a source whose error_count is 5 or
\* more: after five consecutive failed runs a source's error_count is 5, and
\* in the sixth run the source is skipped and appears in neither
\* sources_checked nor sources_succeeded.
QuarantineAfterFiveErrors ==
    [][checker'.runs = checker.runs + 1
       => /\ checker'.failed = 5 => source'.error_count = 5
          /\ (~should_retry(source) \/ checker.failed >= 5) =>
                /\ checker'.result[1].sources_checked = 0
                /\ checker'.result[1].sources_succeeded = 0
      ]_vars

\* C19: every failed per-source check (fetch failure, empty extracted text,
\* or value-parse failure) increments that source's error_count by exactly
\* 1, sets its last_error and last_checked, leaves current_* and original_*
\* unchanged, and yields a SourceCheckResult with success = false and an
\* error.
FailedCheckIsRecordedOnSource ==
    [][(/\ checker'.runs = checker.runs + 1
        /\ ~checker'.result[1].source_results[1].success)
       => /\ source'.error_count = source.error_count + 1
          /\ source'.last_error # None
          /\ source'.last_checked # None
          /\ source'.current_text = source.current_text
          /\ source'.current_value_json = source.current_value_json
          /\ source'.original_text = source.original_text
          /\ source'.original_value_json = source.original_value_json
          /\ checker'.result[1].source_results[1].error # None
      ]_vars

\* C20: a successful source check sets the source's error_count to 0 and
\* clears last_error, so at every moment a source's error_count equals the
\* number of consecutive failed checks since its most recent successful
\* check (or since its creation).
ErrorCountCountsConsecutiveFailures ==
    /\ source.error_count = checker.failed
    /\ (checker.result # None /\ LastSourceResult.success) =>
            /\ source.error_count = 0
            /\ source.last_error = None

\* C21: every successful extraction for a source appends exactly one
\* PriceHistory entry and a failed check appends none: the number of history
\* entries of a source equals its number of successful checks.
HistoryCountsSuccessfulChecks == Len(history) = checker.succeeded

\* C22: in a run where a source is successfully observed for the first time
\* (it has no previous value) the run reports changes_detected = 0 and
\* notifications_sent = 0.
FirstObservationCountsNothing ==
    (/\ checker.result # None
     /\ LastSourceResult.success
     /\ LastSourceResult.old_value = None)
    => /\ checker.result[1].changes_detected = 0
       /\ checker.result[1].notifications_sent = 0

\* C23: a product run reports success exactly when at least one of its
\* sources succeeded; a run over zero sources is unsuccessful and yields no
\* notification and no comparison.
RunSucceedsIffASourceSucceeded ==
    call.res # None =>
        LET r == call.res[1]
        IN  /\ r.success <=> (\E i \in DOMAIN call.source_results :
                                    call.source_results[i].success)
            /\ call.source_results = <<>> =>
                    /\ ~r.success
                    /\ r.notifications_sent = 0
                    /\ r.price_comparison = None

\* a run over zero sources has returned
ZeroSourceRunWitness ==
    /\ call.res # None
    /\ call.source_results = <<>>
    /\ ~call.res[1].success

\* the amounts of the compared sources that have one, with their positions
AmountAt(i) == extract_amount(call.sources[i].value)

NumericSources == {i \in DOMAIN call.sources : AmountAt(i) # None}

AllNumeric == NumericSources = DOMAIN call.sources

SumOfAmounts == SumSeq([i \in DOMAIN call.sources |-> AmountAt(i)[1]])

\* the comparison PriceComparison::new returned
Comparison == call.res[1]

\* best = min, worst = max and savings = worst - best over numeric sources
ExtremesAndSavings ==
    /\ \E i \in DOMAIN call.sources :
            /\ get_best_value(Comparison) = Some(call.sources[i].value)
            /\ \A j \in DOMAIN call.sources : AmountAt(i)[1] <= AmountAt(j)[1]
    /\ \E i \in DOMAIN call.sources :
            /\ get_worst_value(Comparison) = Some(call.sources[i].value)
            /\ \A j \in DOMAIN call.sources : AmountAt(i)[1] >= AmountAt(j)[1]
    /\ get_savings(Comparison) =
            Some(extract_amount(get_worst_value(Comparison)[1])[1]
                    - extract_amount(get_best_value(Comparison)[1])[1])

\* the quotient f lies between 0 and 100
Percentage(f) == 0 <= f.num /\ f.num <= 100 * f.den

\* C24 as stated: for two or more sources with numeric values the best
\* value is the minimum, the worst the maximum, the average the arithmetic
\* mean of the values, savings equals worst minus best, and the
\* savings percentage lies between 0 and 100.
ComparisonStatisticsExact ==
    (call.res # None /\ AllNumeric /\ Len(call.sources) >= 2)
    => /\ ExtremesAndSavings
       /\ LET avg == get_avg_value(Comparison)
               n   == Len(call.sources)
           IN  /\ avg # None
               /\ IF "amount" \in DOMAIN avg[1]
                  THEN /\ ParseF64(avg[1].amount) # None
                       /\ ParseF64(avg[1].amount)[1] * n = SumOfAmounts
                  ELSE avg[1].number.num * n = SumOfAmounts * avg[1].number.den
       /\ get_savings_percentage(Comparison) # None
       /\ Percentage(get_savings_percentage(Comparison)[1])

\* C24: for two or more sources with numeric values the best value is the
\* minimum, the worst the maximum and savings equals worst minus best; the
\* average is the arithmetic mean of the values, rounded to two decimals
\* when the first source is a price; the savings percentage lies between 0
\* and 100 when the worst value is above 0, and there is none when it is 0.
ComparisonStatistics ==
    (call.res # None /\ AllNumeric /\ Len(call.sources) >= 2)
    => /\ ExtremesAndSavings
       /\ LET avg == get_avg_value(Comparison)
               n   == Len(call.sources)
           IN  /\ avg # None
               /\ IF "amount" \in DOMAIN avg[1]
                  THEN /\ ParseF64(avg[1].amount) # None
                       /\ LET d == ParseF64(avg[1].amount)[1] * n
                                        - SumOfAmounts
                          IN  2 * d <= n /\ 2 * d > 0 - n
                  ELSE avg[1].number.num * n = SumOfAmounts * avg[1].number.den
       /\ IF extract_amount(get_worst_value(Comparison)[1])[1] > 0
          THEN /\ get_savings_percentage(Comparison) # None
               /\ Percentage(get_savings_percentage(Comparison)[1])
          ELSE get_savings_percentage(Comparison) = None

\* three prices were compared whose mean is no whole number of hundredths
RoundedAverageWitness ==
    /\ call.res # None
    /\ AllNumeric
    /\ Len(call.sources) = 3
    /\ SumOfAmounts % 3 # 0
    /\ "amount" \in DOMAIN get_avg_value(Comparison)[1]
    /\ get_savings(Comparison) = Some(250)

\* C25: best_source_id is the id of the source with the minimum numeric
\* value, and when several sources tie for the minimum it is the first of
\* them in input order.
BestIsFirstMinimum ==
    (call.res # None /\ NumericSources # {})
    => LET minima == {i \in NumericSources :
                        \A j \in NumericSources :
                            AmountAt(i)[1] <= AmountAt(j)[1]}
           first  == CHOOSE i \in minima : \A j \in minima : i <= j
       IN  Comparison.best_source_id = call.sources[first].source_id

\* two sources tied for the minimum and the comparison names the first
TiedMinimumWitness ==
    /\ call.res # None
    /\ Len(call.sources) = 3
    /\ AllNumeric
    /\ AmountAt(2) = AmountAt(3)
    /\ AmountAt(1)[1] > AmountAt(2)[1]
    /\ Comparison.best_source_id = "s2"

\* the sources whose value cannot be parsed as a number
Unparsed == DOMAIN call.sources \ NumericSources

WorstAndAverageFromTwoSources ==
    call.res # None =>
        /\ Comparison.ok <=> call.sources # <<>>
        /\ Comparison.ok =>
                /\ get_best_value(Comparison) # None
                /\ get_worst_value(Comparison) # None
                        <=> Len(call.sources) >= 2
                /\ get_avg_value(Comparison) # None
                        <=> Len(call.sources) >= 2

\* C27: creating a PriceComparison fails for an empty source list; with
\* exactly one source it has a best value but no worst and no average; the
\* worst value is present exactly when two or more sources were supplied,
\* and the average exactly when, in addition, at least one of their values
\* can be parsed as a number.
WorstFromTwoAverageFromNumeric ==
    call.res # None =>
        /\ Comparison.ok <=> call.sources # <<>>
        /\ Comparison.ok =>
                /\ get_best_value(Comparison) # None
                /\ get_worst_value(Comparison) # None
                        <=> Len(call.sources) >= 2
                /\ get_avg_value(Comparison) # None
                        <=> (Len(call.sources) >= 2 /\ NumericSources # {})

\* a comparison of one source was created
SingleSourceWitness ==
    /\ call.res # None
    /\ Len(call.sources) = 1
    /\ Comparison.ok
    /\ get_best_value(Comparison) = Some(call.sources[1].value)
    /\ get_worst_value(Comparison) = None
    /\ get_avg_value(Comparison) = None

FieldStarts(s) ==
    {i \in DOMAIN s : /\ ~is_whitespace(s[i])
                      /\ (i = 1 \/ is_whitespace(s[i - 1]))}

SameTriple(a, b) ==
    a.major = b.major /\ a.minor = b.minor /\ a.patch = b.patch

\* a is below b by major, then minor, then patch
TripleLess(a, b) ==
    \/ a.major < b.major
    \/ a.major = b.major /\ a.minor < b.minor
    \/ a.major = b.major /\ a.minor = b.minor /\ a.patch < b.patch

\* the tag is a numeric identifier
NumericTag(p) == \A k \in DOMAIN p : IsDigit(p[k])

\* the tag p is below the tag q as character strings: they differ first at
\* k, where p has ended or has the smaller character
TagLessAsString(p, q) ==
    \E k \in 1..(Len(q)) :
        /\ \A j \in 1..(k - 1) : j <= Len(p) /\ p[j] = q[j]
        /\ (k > Len(p) \/ (k <= Len(p) /\ p[k] < q[k]))

\* the tag p is below the tag q in SemVer precedence: numeric identifiers
\* by their number, a numeric identifier below an alphanumeric one,
\* alphanumeric ones as strings
TagLessSemVer(p, q) ==
    IF NumericTag(p) /\ NumericTag(q) THEN ParseU32(p) < ParseU32(q)
    ELSE IF NumericTag(p) THEN TRUE
    ELSE IF NumericTag(q) THEN FALSE
    ELSE TagLessAsString(p, q)

\* C30: for any two versions va < vb in SemVer precedence (by
\* major, minor, patch, then a release above any pre-release of the same
\* triple, then pre-release order), compare(va, vb) reports Increased.
SemVerLessIsIncreased ==
    (/\ call.res # None
     /\ \/ TripleLess(call.va, call.vb)
        \/ /\ SameTriple(call.va, call.vb)
           /\ call.va.pre_release # None
           /\ \/ call.vb.pre_release = None
              \/ /\ call.vb.pre_release # None
                 /\ TagLessSemVer(call.va.pre_release[1],
                                  call.vb.pre_release[1]))
    => call.res[1].change_type = "Increased"

\* C34: if schedule(product) fails because the product's cron expression is
\* rejected while the product already has a job, the existing JobInfo with
\* its counters and the running-task map are unchanged after the call.
FailedScheduleKeepsExistingJob ==
    [][(/\ last'.op = "schedule"
        /\ last'.res = "ErrCron"
        /\ last'.pid \in DOMAIN jobs)
       => /\ last'.pid \in DOMAIN jobs'
          /\ jobs'[last'.pid] = jobs[last'.pid]
          /\ running_jobs' = running_jobs]_vars

\* C35: in every reachable state, every JobInfo satisfies run_count =
\* success_count + error_count, under any interleaving of cron-fired checks,
\* run_now calls and pause/resume.
RunCountIsSumOfOutcomes ==
    \A p \in DOMAIN jobs :
        jobs[p].run_count = jobs[p].success_count + jobs[p].error_count

\* a paused job has completed one successful and one failed check
MixedOutcomesWitness ==
    \E p \in DOMAIN jobs :
        /\ jobs[p].success_count = 1
        /\ jobs[p].error_count = 1
        /\ jobs[p].run_count = 2
        /\ last.op = "pause"

\* C36: once pause(product_id) has succeeded, the job's status stays Paused
\* until resume, unschedule or schedule is called for that product: a check
\* of that product that completes in the meantime (successfully or not)
\* does not change the status.
PausedUntilResumed ==
    [][\A p \in DOMAIN jobs :
        (/\ jobs[p].status = "Paused"
         /\ ~(/\ last'.pid = p
              /\ last'.op \in {"resume", "unschedule", "schedule",
                                "reschedule"}))
        => /\ p \in DOMAIN jobs'
           /\ jobs'[p].status = "Paused"]_vars

\* C38: is_job_running(product_id) is true, and the product is counted in
\* stats().running_jobs, exactly while a check task for that product is in
\* flight: the running-task map has an entry for a product if and only if
\* one of its checks has started and not yet finished or been aborted.
RunningMapMatchesChecksInFlight ==
    /\ \A p \in StatsProducts : is_job_running(p) <=> InFlight(p) # {}
    /\ get_stats.running_jobs
            = Cardinality({p \in StatsProducts : InFlight(p) # {}})

\* C37: a check task only updates the JobInfo under which it was started: if
\* the product is unscheduled, or scheduled again, while the task is in
\* flight, the task's completion changes no counter and no status of the
\* product's new JobInfo.
CheckUpdatesOnlyItsOwnJobInfo ==
    [][\A t \in DOMAIN tasks :
        (/\ t \notin DOMAIN tasks'
         /\ last'.op \in {"check_done", "run_now"}
         /\ last'.res \in {"Success", "Failed"}
         /\ tasks[t].pid \in DOMAIN jobs
         /\ jobs[tasks[t].pid].id # tasks[t].job)
        => jobs' = jobs]_vars

\* C33: a failure of one source's check never aborts the product run: every
\* eligible source of the product gets exactly one result in the run, so
\* sources_checked equals the number of eligible sources (the one source of
\* the product, whose error_count is below 5) however many of them fail.
FailedSourceDoesNotAbortRun ==
    checker.result # None =>
        /\ should_retry(source)
        /\ checker.result[1].sources_checked = 1
        /\ Len(checker.result[1].source_results) = 1
        /\ checker.result[1].error = None

\* a run whose source failed returned the result of that source
FailedSourceRunWitness ==
    /\ checker.result # None
    /\ checker.failed >= 2
    /\ checker.result[1].sources_checked = 1
    /\ ~checker.result[1].source_results[1].success
    /\ checker.result[1].source_results[1].error # None

\* C39: every ProductCheckResult satisfies notifications_sent <=
\* changes_detected <= sources_succeeded <= sources_checked, and
\* sources_checked equals the number of per-source results in it.
ResultCountsAreOrdered ==
    call.res # None =>
        LET r == call.res[1]
        IN  /\ r.notifications_sent <= r.changes_detected
            /\ r.changes_detected <= r.sources_succeeded
            /\ r.sources_succeeded <= r.sources_checked
            /\ r.sources_checked = Len(r.source_results)

\* a run of two succeeded sources with two changes and one notification
OrderedCountsWitness ==
    /\ call.res # None
    /\ call.res[1].notifications_sent = 1
    /\ call.res[1].changes_detected = 2
    /\ call.res[1].sources_succeeded = 2
    /\ call.res[1].sources_checked = 2

\* C40: an admin update of a source (store name, title, selector, selector
\* type, is_active) changes none of error_count, last_error, last_checked,
\* original_* and current_*, so it never changes whether error_count < 5
\* holds for that source.
AdminUpdateKeepsCheckState ==
    call.op = "update" =>
        /\ source.error_count = call.before.error_count
        /\ source.last_error = call.before.last_error
        /\ source.last_checked = call.before.last_checked
        /\ source.original_text = call.before.original_text
        /\ source.original_value_json = call.before.original_value_json
        /\ source.current_text = call.before.current_text
        /\ source.current_value_json = call.before.current_value_json
        /\ (source.error_count < 5) <=> (call.before.error_count < 5)

\* a source with five errors and a value was re-activated with a new
\* selector
QuarantinedSourceUpdatedWitness ==
    /\ call.op = "update"
    /\ call.update.selector # None
    /\ ~call.before.is_active
    /\ source.is_active
    /\ source.error_count = 5
    /\ source.current_text # None

\* C31: every fetch failure mode (navigation error, wait timeout, selector
\* parse error, unsupported selector type) is returned by scrape as a
\* ScrapeResult with success = false whose final_url is the requested URL,
\* never as an Err that the caller must catch.
FetchFailuresAreResults ==
    (/\ call.op = "scrape"
     /\ \/ call.env.fail \in {"navigate_to", "wait_until_navigated"}
        \/ /\ call.env.fail = "wait_for_element"
           /\ call.request.wait_for_selector # None
        \/ /\ call.env.fail = "none"
           /\ call.request.selector_type = "css"
           /\ ~Selector_parse(call.request.selector)
        \/ /\ call.env.fail = "none"
           /\ call.request.selector_type \notin {"css", "xpath", "text"})
    => /\ call.res.ok
       /\ ~call.res.success
       /\ call.res.final_url = call.request.url

\* C32: the pool has min(max_concurrent_checks, 3) browsers and every fetch
\* holds its browser for the whole fetch, so at no instant are more fetches
\* in progress than there are browsers and no browser serves two fetches
\* at once.
EachBrowserServesOneFetch ==
    /\ browser_pool.browsers \in 1..3
    /\ Cardinality(DOMAIN fetches) <= browser_pool.browsers
    /\ \A f, g \in DOMAIN fetches :
          f # g => fetches[f].browser # fetches[g].browser
====
